---- MODULE Spec2Model ----
(***************************************************************************)
(* Linux frame layout of shell/browser/ui/views/linux_frame_layout.{h,cc}: *)
(* the factory LinuxFrameLayout::Create, the three layout strategies       *)
(* (undecorated, CSD native frame, CSD custom frame), their inset and      *)
(* bounds queries, and the tiled flag.  The toolkit (window, tree host,    *)
(* theme, locale, layout provider) is the environment of the layout.       *)
(***************************************************************************)
EXTENDS Integers, Sequences, FiniteSets, TLC

VARIABLES
    isX11,          \* x11_util::IsX11()
    translucent,    \* window->IsTranslucent()
    maximized,      \* window->IsMaximized()
    fullscreen,     \* window->IsFullscreen()
    treeHost,       \* GetHostForWidget(...): "absent", "noshadow" or "shadow"
    rtl,            \* base::i18n::IsRTL()
    theme,          \* the GTK theme the frame providers are taken from
    elevation,      \* LayoutProvider's shadow elevation metric (kMaximum)
    frameProvider,  \* the theme hands out a window frame provider (non-null)
    widget,         \* window->widget() is non-null
    layout,         \* the layout object the window owns (NoLayout before Create)
    found,          \* history: host support for client frame shadows when the
                    \* layout was constructed
    tiledArg,       \* history: argument of the most recent set_tiled call
    last            \* the call that has just returned, with its result

vars == <<isX11, translucent, maximized, fullscreen, treeHost, rtl, theme,
          elevation, frameProvider, widget, layout, found, tiledArg, last>>

env == <<isX11, translucent, maximized, fullscreen, treeHost, rtl, theme,
         elevation, frameProvider, widget>>

(***************************************************************************)
(* Bounds of the model.                                                    *)
(***************************************************************************)
MaxElevationSteps == 2
ElevationStep == 7
MaxSide == 2

(***************************************************************************)
(* Program constants.                                                      *)
(***************************************************************************)
kResizeBorder == 10
kResizeInsideBoundsSize == 5

(***************************************************************************)
(* gfx::Insets and gfx::Rect values.                                       *)
(***************************************************************************)
TLBR(t, l, b, r) == [top |-> t, left |-> l, bottom |-> b, right |-> r]

Insets(v) == TLBR(v, v, v, v)

IsEmptyInsets(i) == i.left + i.right = 0 /\ i.top + i.bottom = 0

NegInsets(i) == TLBR(-i.top, -i.left, -i.bottom, -i.right)

Rect(x, y, w, h) == [x |-> x, y |-> y, width |-> w, height |-> h]

RectRight(r) == r.x + r.width

RectBottom(r) == r.y + r.height

IsEmptyRect(r) == r.width <= 0 \/ r.height <= 0

Max(a, b) == IF a >= b THEN a ELSE b

Min(a, b) == IF a <= b THEN a ELSE b

\* gfx::Rect::Inset: the origin moves in by (left, top), the size shrinks and
\* is clamped at 0.
RectInset(r, i) ==
    Rect(r.x + i.left, r.y + i.top,
         Max(r.width - (i.left + i.right), 0),
         Max(r.height - (i.top + i.bottom), 0))

\* gfx::Rect::Union: an empty receiver becomes the argument, an empty
\* argument is ignored, otherwise the bounding box.
RectUnion(a, b) ==
    IF IsEmptyRect(a) THEN b
    ELSE IF IsEmptyRect(b) THEN a
    ELSE LET x == Min(a.x, b.x)
             y == Min(a.y, b.y)
         IN  Rect(x, y, Max(RectRight(a), RectRight(b)) - x,
                  Max(RectBottom(a), RectBottom(b)) - y)

(***************************************************************************)
(* What the toolkit hands to the layout.                                   *)
(***************************************************************************)
Themes == {"flat", "thin", "lopsided"}

Elevations == {k * ElevationStep : k \in 0..MaxElevationSteps}

CSDStyles == {"kNativeFrame", "kCustom"}

TreeHosts == {"absent", "noshadow", "shadow"}

\* window_->widget()->GetWindowBoundsInScreen()
WindowBoundsInScreen == Rect(100, 50, 800, 600)

\* ui::WindowFrameProvider::GetFrameThicknessDip of the provider the theme
\* returns for (solid_frame, tiled, maximized).  The metrics are the theme's;
\* three sample themes: one without any frame, one with a shadow thinner
\* than the resize band, one with no shadow on top and unequal sides.
GetFrameThicknessDip(provider) ==
    IF provider.theme = "flat" \/ provider.maximized THEN Insets(0)
    ELSE IF provider.solid_frame THEN Insets(1)
    ELSE IF provider.theme = "thin"
         THEN (IF provider.tiled THEN Insets(0) ELSE Insets(4))
    ELSE IF provider.tiled THEN TLBR(0, 0, 14, 6)
    ELSE TLBR(0, 12, 14, 6)

\* gfx::ShadowValue::MakeMdShadowValues (ui/gfx/shadow_value.cc): a key
\* shadow, offset (0, elevation) with blur 4 * elevation, and an ambient
\* shadow, no offset with blur 2 * elevation.
MakeMdShadowValues(e) ==
    << [x |-> 0, y |-> e, blur |-> 4 * e], [x |-> 0, y |-> 0, blur |-> 2 * e] >>

GetFrameShadowValuesLinux == MakeMdShadowValues(elevation)

(***************************************************************************)
(* The layout objects.                                                     *)
(***************************************************************************)
NoLayout == [kind |-> "none"]

IsCSD(l) == l.kind \in {"native", "custom"}

\* SupportsClientFrameShadow reads through window_ only; the tree host is
\* checked for null before it is asked.
LinuxCSDBaseLayout_SupportsClientFrameShadow ==
    IF treeHost = "absent" THEN FALSE ELSE treeHost = "shadow"

LinuxCSDBaseLayout_ctor(kind) ==
    [kind |-> kind, tiled_ |-> FALSE,
     host_supports_client_frame_shadow_ |->
         LinuxCSDBaseLayout_SupportsClientFrameShadow]

LinuxUndecoratedFrameLayout_ctor == [kind |-> "undecorated", tiled_ |-> FALSE]

\* Mutant: the style is looked at before the display server, translucency
\* and shadow wish.
Create_style_first(wants_shadow, csd_style) ==
    IF csd_style = "kCustom"
    THEN LinuxCSDBaseLayout_ctor("custom")
    ELSE IF isX11 \/ translucent \/ ~wants_shadow
    THEN LinuxUndecoratedFrameLayout_ctor
    ELSE LinuxCSDBaseLayout_ctor("native")

LinuxFrameLayout_Create(wants_shadow, csd_style) ==
    IF isX11 \/ translucent \/ ~wants_shadow
    THEN LinuxUndecoratedFrameLayout_ctor
    ELSE IF csd_style = "kCustom"
    THEN LinuxCSDBaseLayout_ctor("custom")
    ELSE LinuxCSDBaseLayout_ctor("native")

\* Mutant: the fullscreen test is left out.
IsShowingShadow_ignores_fullscreen(l) ==
    l.host_supports_client_frame_shadow_ /\ ~maximized

LinuxCSDBaseLayout_IsShowingShadow(l) ==
    l.host_supports_client_frame_shadow_ /\ ~maximized /\ ~fullscreen

LinuxCSDBaseLayout_GetInputInsets(l) ==
    Insets(IF LinuxCSDBaseLayout_IsShowingShadow(l) THEN kResizeBorder ELSE 0)

\* Mutant: a side without thickness is expanded too.
expand_always(side_thickness, min_band) == Max(side_thickness, min_band)

expand_if_visible(side_thickness, min_band) ==
    IF side_thickness > 0 THEN Max(side_thickness, min_band) ELSE 0

NormalizeBorderInsets(frame_insets, input_insets) ==
    LET merged == TLBR(expand_if_visible(frame_insets.top, input_insets.top),
                       expand_if_visible(frame_insets.left, input_insets.left),
                       expand_if_visible(frame_insets.bottom, input_insets.bottom),
                       expand_if_visible(frame_insets.right, input_insets.right))
    IN  IF rtl THEN TLBR(merged.top, merged.right, merged.bottom, merged.left)
        ELSE merged

GetFrameProvider(l) ==
    [theme |-> theme, solid_frame |-> ~l.host_supports_client_frame_shadow_,
     tiled |-> l.tiled_, maximized |-> maximized]

LinuxCSDNativeFrameLayout_RestoredFrameBorderInsets(l) ==
    LET input_insets == LinuxCSDBaseLayout_GetInputInsets(l)
        frame_insets == GetFrameThicknessDip(GetFrameProvider(l))
    IN  NormalizeBorderInsets(frame_insets, input_insets)

kDefaultCustomFrameBorder == TLBR(2, 1, 1, 1)

\* Mutant: the shadow's offset is not applied.
ShadowExtents_no_offset(sv) ==
    LET near == (-sv.blur) \div 4
        far == -((-sv.blur) \div 4)
    IN  Rect(near, near, far - near, far - near)

\* One shadow's rectangle: an empty RectF inset by -blur/4 on every side and
\* moved by the offset, then gfx::ToEnclosingRect (floor of the near edges,
\* ceiling of the far ones; a zero size stays zero).  Edges are computed in
\* quarters, blur / 4 being a floating-point division.
ShadowExtents(sv) ==
    LET left == (4 * sv.x - sv.blur) \div 4
        top == (4 * sv.y - sv.blur) \div 4
        right == IF sv.blur = 0 THEN left ELSE -((-(4 * sv.x + sv.blur)) \div 4)
        bottom == IF sv.blur = 0 THEN top ELSE -((-(4 * sv.y + sv.blur)) \div 4)
    IN  Rect(left, top, right - left, bottom - top)

RECURSIVE UnionOfShadows(_, _, _)
UnionOfShadows(shadow_values, i, frame_extents) ==
    IF i > Len(shadow_values) THEN frame_extents
    ELSE UnionOfShadows(shadow_values, i + 1,
                        RectUnion(frame_extents, ShadowExtents(shadow_values[i])))

CustomFrameExtents(shadow_values, input_insets) ==
    RectUnion(UnionOfShadows(shadow_values, 1, Rect(0, 0, 0, 0)),
              RectInset(Rect(0, 0, 0, 0), NegInsets(input_insets)))

LinuxCSDCustomFrameLayout_RestoredFrameBorderInsets(l) ==
    LET input_insets == LinuxCSDBaseLayout_GetInputInsets(l)
        showing_shadow == LinuxCSDBaseLayout_IsShowingShadow(l)
        shadow_values == IF l.tiled_ THEN << >> ELSE GetFrameShadowValuesLinux
        frame_extents == CustomFrameExtents(shadow_values, input_insets)
        frame_insets ==
            IF showing_shadow
            THEN TLBR(-frame_extents.y, -frame_extents.x,
                      RectBottom(frame_extents), RectRight(frame_extents))
            ELSE [kDefaultCustomFrameBorder EXCEPT !.top = 0]
    IN  NormalizeBorderInsets(frame_insets, input_insets)

\* Mutant: the restored insets are the inside resize band.
Undecorated_restored_is_band == Insets(kResizeInsideBoundsSize)

LinuxUndecoratedFrameLayout_RestoredFrameBorderInsets == Insets(0)

LinuxUndecoratedFrameLayout_GetInputInsets == Insets(kResizeInsideBoundsSize)

(***************************************************************************)
(* The virtual interface, dispatched on the dynamic type.                  *)
(***************************************************************************)
RestoredFrameBorderInsets(l) ==
    CASE l.kind = "undecorated" -> LinuxUndecoratedFrameLayout_RestoredFrameBorderInsets
      [] l.kind = "native" -> LinuxCSDNativeFrameLayout_RestoredFrameBorderInsets(l)
      [] l.kind = "custom" -> LinuxCSDCustomFrameLayout_RestoredFrameBorderInsets(l)

GetInputInsets(l) ==
    IF IsCSD(l) THEN LinuxCSDBaseLayout_GetInputInsets(l)
    ELSE LinuxUndecoratedFrameLayout_GetInputInsets

IsShowingShadow(l) ==
    IF IsCSD(l) THEN LinuxCSDBaseLayout_IsShowingShadow(l) ELSE FALSE

SupportsClientFrameShadow(l) ==
    IF IsCSD(l) THEN LinuxCSDBaseLayout_SupportsClientFrameShadow ELSE FALSE

tiled(l) == l.tiled_

\* Mutant: the argument is stored in the other boolean member.
set_tiled_wrong_member(l, t) ==
    IF IsCSD(l) THEN [l EXCEPT !.host_supports_client_frame_shadow_ = t]
    ELSE l

\* Mutant: the member is assigned to itself.
set_tiled_self_assign(l, t) == [l EXCEPT !.tiled_ = l.tiled_]

set_tiled(l, t) == [l EXCEPT !.tiled_ = t]

GetResizeBorderInsets(l) ==
    LET insets == RestoredFrameBorderInsets(l)
    IN  IF IsEmptyInsets(insets) THEN GetInputInsets(l) ELSE insets

GetWindowBounds(l) ==
    IF IsCSD(l) THEN RectInset(WindowBoundsInScreen, RestoredFrameBorderInsets(l))
    ELSE WindowBoundsInScreen

(***************************************************************************)
(* Pointers a query dereferences without a check.  Dereferencing a null    *)
(* pointer is undefined behaviour.                                         *)
(***************************************************************************)
\* Mutant: the tree host is asked without the null check.
SupportsClientFrameShadow_unchecked(l) == IsCSD(l) /\ treeHost = "absent"

SupportsClientFrameShadow_DerefsNull(l) == FALSE

RestoredFrameBorderInsets_DerefsNull(l) == l.kind = "native" /\ ~frameProvider

GetWindowBounds_DerefsNull(l) ==
    ~widget \/ (IsCSD(l) /\ RestoredFrameBorderInsets_DerefsNull(l))

Queries ==
    {"SupportsClientFrameShadow", "IsShowingShadow", "GetInputInsets",
     "RestoredFrameBorderInsets", "GetResizeBorderInsets", "GetWindowBounds",
     "tiled"}

InsetQueries ==
    {"GetInputInsets", "RestoredFrameBorderInsets", "GetResizeBorderInsets"}

Value(q, l) ==
    CASE q = "SupportsClientFrameShadow" -> SupportsClientFrameShadow(l)
      [] q = "IsShowingShadow" -> IsShowingShadow(l)
      [] q = "GetInputInsets" -> GetInputInsets(l)
      [] q = "RestoredFrameBorderInsets" -> RestoredFrameBorderInsets(l)
      [] q = "GetResizeBorderInsets" -> GetResizeBorderInsets(l)
      [] q = "GetWindowBounds" -> GetWindowBounds(l)
      [] q = "tiled" -> tiled(l)

DerefsNull(q, l) ==
    CASE q = "SupportsClientFrameShadow" -> SupportsClientFrameShadow_DerefsNull(l)
      [] q \in {"RestoredFrameBorderInsets", "GetResizeBorderInsets"} ->
             RestoredFrameBorderInsets_DerefsNull(l)
      [] q = "GetWindowBounds" -> GetWindowBounds_DerefsNull(l)
      [] OTHER -> FALSE

\* A query that dereferences null may crash or return anything of its type.
Arbitrary(q) ==
    CASE q \in InsetQueries -> {Insets(0), Insets(kResizeBorder)}
      [] q = "GetWindowBounds" -> {WindowBoundsInScreen, Rect(0, 0, 0, 0)}
      [] OTHER -> BOOLEAN

Outcomes(q, l) ==
    IF DerefsNull(q, l)
    THEN {[op |-> q, crashed |-> TRUE]}
         \cup {[op |-> q, crashed |-> FALSE, result |-> v] : v \in Arbitrary(q)}
    ELSE {[op |-> q, crashed |-> FALSE, result |-> Value(q, l)]}

(***************************************************************************)
(* The state machine.                                                      *)
(***************************************************************************)
NoCall == [op |-> "none", crashed |-> FALSE]

InitLayout ==
    /\ isX11 \in BOOLEAN
    /\ translucent \in BOOLEAN
    /\ maximized \in BOOLEAN
    /\ fullscreen \in BOOLEAN
    /\ treeHost \in TreeHosts
    /\ rtl \in BOOLEAN
    /\ theme \in Themes
    /\ elevation \in Elevations
    /\ layout = NoLayout
    /\ found = FALSE
    /\ tiledArg = "none"
    /\ last = NoCall

Init ==
    /\ InitLayout
    /\ frameProvider = TRUE
    /\ widget = TRUE

\* frame_layout_ = LinuxFrameLayout::Create(window, wants_shadow, csd_style)
Create(wants_shadow, csd_style) ==
    /\ ~last.crashed
    /\ layout' = LinuxFrameLayout_Create(wants_shadow, csd_style)
    /\ found' = (treeHost = "shadow")
    /\ tiledArg' = "none"
    /\ last' = [op |-> "Create", crashed |-> FALSE,
                wants_shadow |-> wants_shadow, csd_style |-> csd_style]
    /\ UNCHANGED env

SetTiled(t) ==
    /\ ~last.crashed
    /\ layout # NoLayout
    /\ layout' = set_tiled(layout, t)
    /\ tiledArg' = IF t THEN "true" ELSE "false"
    /\ last' = [op |-> "set_tiled", crashed |-> FALSE, arg |-> t]
    /\ UNCHANGED <<env, found>>

Query(q) ==
    /\ ~last.crashed
    /\ layout # NoLayout
    /\ last' \in Outcomes(q, layout)
    /\ UNCHANGED <<env, layout, found, tiledArg>>

\* The window is maximized or restored.
SetMaximized ==
    /\ ~last.crashed
    /\ maximized' = ~maximized
    /\ last' = NoCall
    /\ UNCHANGED <<isX11, translucent, fullscreen, treeHost, rtl, theme,
                   elevation, frameProvider, widget, layout, found, tiledArg>>

\* The window enters or leaves fullscreen.
SetFullscreen ==
    /\ ~last.crashed
    /\ fullscreen' = ~fullscreen
    /\ last' = NoCall
    /\ UNCHANGED <<isX11, translucent, maximized, treeHost, rtl, theme,
                   elevation, frameProvider, widget, layout, found, tiledArg>>

\* The window becomes translucent or opaque.
SetTranslucent ==
    /\ ~last.crashed
    /\ translucent' = ~translucent
    /\ last' = NoCall
    /\ UNCHANGED <<isX11, maximized, fullscreen, treeHost, rtl, theme,
                   elevation, frameProvider, widget, layout, found, tiledArg>>

\* The tree host of the widget appears, goes, or changes what it supports.
TreeHostChanged ==
    /\ ~last.crashed
    /\ treeHost' \in TreeHosts \ {treeHost}
    /\ last' = NoCall
    /\ UNCHANGED <<isX11, translucent, maximized, fullscreen, rtl, theme,
                   elevation, frameProvider, widget, layout, found, tiledArg>>

\* The system theme changes.
ThemeChanged ==
    /\ ~last.crashed
    /\ theme' \in Themes \ {theme}
    /\ last' = NoCall
    /\ UNCHANGED <<isX11, translucent, maximized, fullscreen, treeHost, rtl,
                   elevation, frameProvider, widget, layout, found, tiledArg>>

\* The layout provider's shadow elevation metric changes.
ElevationChanged ==
    /\ ~last.crashed
    /\ elevation' \in Elevations \ {elevation}
    /\ last' = NoCall
    /\ UNCHANGED <<isX11, translucent, maximized, fullscreen, treeHost, rtl,
                   theme, frameProvider, widget, layout, found, tiledArg>>

Next ==
    \/ \E w \in BOOLEAN, s \in CSDStyles : Create(w, s)
    \/ \E t \in BOOLEAN : SetTiled(t)
    \/ \E q \in Queries : Query(q)
    \/ SetMaximized
    \/ SetFullscreen
    \/ SetTranslucent
    \/ TreeHostChanged
    \/ ThemeChanged
    \/ ElevationChanged

Spec == Init /\ [][Next]_vars

(***************************************************************************)
(* The toolkit objects the code does not check may be absent.              *)
(***************************************************************************)
InitAbsent ==
    /\ InitLayout
    /\ frameProvider \in BOOLEAN
    /\ widget \in BOOLEAN

\* The theme stops or starts handing out a frame provider, the widget goes
\* or comes.
ToolkitObjectChanged ==
    /\ ~last.crashed
    /\ \/ frameProvider' = ~frameProvider /\ widget' = widget
       \/ frameProvider' = frameProvider /\ widget' = ~widget
    /\ last' = NoCall
    /\ UNCHANGED <<isX11, translucent, maximized, fullscreen, treeHost, rtl,
                   theme, elevation, layout, found, tiledArg>>

NextAbsent ==
    \/ \E w \in BOOLEAN, s \in CSDStyles : Create(w, s)
    \/ \E t \in BOOLEAN : SetTiled(t)
    \/ \E q \in Queries : Query(q)
    \/ SetMaximized
    \/ SetFullscreen
    \/ SetTranslucent
    \/ TreeHostChanged
    \/ ThemeChanged
    \/ ElevationChanged
    \/ ToolkitObjectChanged

SpecAbsent == InitAbsent /\ [][NextAbsent]_vars

(***************************************************************************)
(* NormalizeBorderInsets on its own, over all small pairs of insets.       *)
(***************************************************************************)
Sides == {"top", "left", "bottom", "right"}

SideValues == (-1)..MaxSide

InsetsValues ==
    {TLBR(t, l, b, r) : t \in SideValues, l \in SideValues,
                        b \in SideValues, r \in SideValues}

InitNormalize ==
    /\ isX11 = FALSE
    /\ translucent = FALSE
    /\ maximized = FALSE
    /\ fullscreen = FALSE
    /\ treeHost = "shadow"
    /\ rtl \in BOOLEAN
    /\ theme = "flat"
    /\ elevation = 0
    /\ frameProvider = TRUE
    /\ widget = TRUE
    /\ layout = NoLayout
    /\ found = FALSE
    /\ tiledArg = "none"
    /\ last = NoCall

NormalizeCall(frame_insets, input_insets) ==
    /\ last' = [op |-> "NormalizeBorderInsets", crashed |-> FALSE,
                frame_insets |-> frame_insets, input_insets |-> input_insets,
                result |-> NormalizeBorderInsets(frame_insets, input_insets)]
    /\ UNCHANGED <<env, layout, found, tiledArg>>

NextNormalize ==
    /\ last = NoCall
    /\ \E f \in InsetsValues, i \in InsetsValues : NormalizeCall(f, i)

SpecNormalize == InitNormalize /\ [][NextNormalize]_vars

(***************************************************************************)
(* Properties.                                                             *)
(***************************************************************************)

\* C1: Create returns the undecorated layout iff the display server is X11,
\* the window is translucent or no shadow is wanted; otherwise the custom
\* layout iff csd_style is kCustom, and the native layout in the rest.
C1_CreatePicksStrategy ==
    last.op = "Create" =>
        LET undecorated == isX11 \/ translucent \/ ~last.wants_shadow
        IN  /\ layout.kind \in {"undecorated", "custom", "native"}
            /\ (layout.kind = "undecorated") <=> undecorated
            /\ (layout.kind = "custom") <=>
                   (~undecorated /\ last.csd_style = "kCustom")
            /\ (layout.kind = "native") <=>
                   (~undecorated /\ last.csd_style # "kCustom")

C1_Witness ==
    /\ last.op = "Create"
    /\ last.csd_style = "kCustom"
    /\ last.wants_shadow
    /\ translucent
    /\ layout.kind = "undecorated"

\* C2: the undecorated layout's RestoredFrameBorderInsets is zero on all
\* four sides in every reachable state.
C2_UndecoratedRestoredZero ==
    layout.kind = "undecorated" =>
        /\ RestoredFrameBorderInsets(layout) = Insets(0)
        /\ last.op = "RestoredFrameBorderInsets" =>
               ~last.crashed /\ last.result = Insets(0)

C2_Witness ==
    /\ layout.kind = "undecorated"
    /\ layout.tiled_
    /\ maximized
    /\ fullscreen
    /\ last.op = "RestoredFrameBorderInsets"

\* C3: for the undecorated layout every inset query (RestoredFrameBorderInsets,
\* GetInputInsets, GetResizeBorderInsets) returns zero on all four sides.
C3_UndecoratedAllInsetsZero ==
    (layout.kind = "undecorated" /\ last.op \in InsetQueries) =>
        last.result = Insets(0)

\* C4 as claimed: in both text directions the result on each side is 0 when
\* the frame inset on that side is not positive, and otherwise the maximum of
\* the frame inset and the input inset on that same side.
C4_SameSideInBothDirections ==
    last.op = "NormalizeBorderInsets" =>
        \A s \in Sides :
            last.result[s] =
                IF last.frame_insets[s] <= 0 THEN 0
                ELSE Max(last.frame_insets[s], last.input_insets[s])

\* The side of the arguments a side of the result is computed from: left and
\* right change places in a right-to-left locale.
SourceSide(s) ==
    IF ~rtl THEN s
    ELSE CASE s = "left" -> "right"
           [] s = "right" -> "left"
           [] OTHER -> s

\* C4 as amended: the result on side s is 0 when the frame inset on the
\* source side of s is not positive, and otherwise the maximum of the frame
\* and input insets on that source side; the source side is s itself, except
\* that in a right-to-left locale left is computed from right and right from
\* left.
C4_MirroredInRTL ==
    last.op = "NormalizeBorderInsets" =>
        \A s \in Sides :
            last.result[s] =
                IF last.frame_insets[SourceSide(s)] <= 0 THEN 0
                ELSE Max(last.frame_insets[SourceSide(s)],
                         last.input_insets[SourceSide(s)])

C4_Witness ==
    /\ last.op = "NormalizeBorderInsets"
    /\ rtl
    /\ last.frame_insets.left = 0
    /\ last.frame_insets.right = 1
    /\ last.input_insets.right = 2
    /\ last.result.left = 2
    /\ last.result.right = 0

\* The object of the same class constructed in the current toolkit state and
\* given the same tiled flag.
FreshLayout(l) ==
    set_tiled(IF IsCSD(l) THEN LinuxCSDBaseLayout_ctor(l.kind)
              ELSE LinuxUndecoratedFrameLayout_ctor,
              tiled(l))

GeometryQueries ==
    {"IsShowingShadow", "GetInputInsets", "RestoredFrameBorderInsets",
     "GetResizeBorderInsets"}

\* C5 as claimed: the geometry answers depend on the current toolkit state
\* and the tiled flag only, whatever the toolkit state was at construction:
\* they are those of an object constructed now.
C5_RecomputedFromCurrentState ==
    last.op \in GeometryQueries =>
        last.result = Value(last.op, FreshLayout(layout))

\* C5 as amended: a CSD layout keeps the host support it found when it was
\* constructed; the geometry answers are those of an object constructed now
\* whenever the host support found at construction is the current one.
C5_RecomputedExceptHostSupport ==
    layout # NoLayout =>
        /\ IsCSD(layout) => layout.host_supports_client_frame_shadow_ = found
        /\ (IsCSD(layout) => found = (treeHost = "shadow")) =>
               \A q \in GeometryQueries :
                   Value(q, layout) = Value(q, FreshLayout(layout))

C5_Witness ==
    /\ layout.kind = "custom"
    /\ layout.tiled_
    /\ found
    /\ treeHost = "shadow"
    /\ ~maximized
    /\ ~fullscreen
    /\ last.op = "RestoredFrameBorderInsets"
    /\ last.result = Value("RestoredFrameBorderInsets", FreshLayout(layout))

\* C6 as claimed: whichever of the tree host, the frame provider and the
\* widget is absent, every query of every layout completes with a value.
C6_QueriesNeverFail ==
    last.op \in Queries \ {"tiled"} =>
        /\ ~DerefsNull(last.op, layout)
        /\ ~last.crashed

\* C6 as amended: only the absent tree host is handled.  With it absent
\* SupportsClientFrameShadow returns false, and a CSD layout constructed then
\* shows no shadow and has zero input insets.  The only queries that do not
\* complete are GetWindowBounds without a widget and, for the native layout
\* without a frame provider, RestoredFrameBorderInsets, GetResizeBorderInsets
\* and GetWindowBounds: these dereference a null pointer.
C6_OnlyTreeHostChecked ==
    layout # NoLayout =>
        /\ \A q \in Queries :
               DerefsNull(q, layout) <=>
                   \/ q = "GetWindowBounds" /\ ~widget
                   \/ /\ layout.kind = "native"
                      /\ ~frameProvider
                      /\ q \in {"RestoredFrameBorderInsets",
                                "GetResizeBorderInsets", "GetWindowBounds"}
        /\ last.crashed => DerefsNull(last.op, layout)
        /\ (treeHost = "absent" /\ last.op = "SupportsClientFrameShadow") =>
               last.result = FALSE
        /\ (treeHost = "absent" /\ last.op = "Create" /\ IsCSD(layout)) =>
               /\ ~IsShowingShadow(layout)
               /\ GetInputInsets(layout) = Insets(0)

C6_Witness ==
    /\ layout.kind = "native"
    /\ treeHost = "absent"
    /\ ~frameProvider
    /\ ~widget
    /\ last.op = "SupportsClientFrameShadow"
    /\ ~last.crashed
    /\ last.result = FALSE

\* C7: for a CSD layout that is showing a shadow GetResizeBorderInsets is at
\* least the input band (10) on every one of the four edges.
C7_ResizeBandOnEveryEdge ==
    (IsCSD(layout) /\ IsShowingShadow(layout)
         /\ last.op = "GetResizeBorderInsets") =>
        \A s \in Sides : last.result[s] >= kResizeBorder

\* How far a shadow (a square of radius blur / 4 around its offset) reaches
\* beyond the origin on side s, in quarters.
ShadowReach4(sv, s) ==
    CASE s = "top" -> sv.blur - 4 * sv.y
      [] s = "left" -> sv.blur - 4 * sv.x
      [] s = "bottom" -> sv.blur + 4 * sv.y
      [] s = "right" -> sv.blur + 4 * sv.x

C9_ShadowAndInputInsets ==
    IsCSD(layout) =>
        LET showing == found /\ ~maximized /\ ~fullscreen
        IN  /\ IsShowingShadow(layout) <=> showing
            /\ GetInputInsets(layout) = Insets(IF showing THEN 10 ELSE 0)
            /\ last.op = "IsShowingShadow" => last.result = showing
            /\ last.op = "GetInputInsets" =>
                   last.result = Insets(IF showing THEN 10 ELSE 0)

C9_Witness ==
    /\ IsCSD(layout)
    /\ layout.tiled_
    /\ fullscreen
    /\ found
    /\ treeHost = "shadow"
    /\ last.op = "GetInputInsets"
    /\ last.result = Insets(0)

C10_TiledIsLastArgument ==
    layout # NoLayout => tiled(layout) = (tiledArg = "true")

C10_SetTiledStep ==
    last'.op = "set_tiled" =>
        /\ tiled(layout') = last'.arg
        /\ [layout' EXCEPT !.tiled_ = layout.tiled_] = layout
        /\ UNCHANGED env
        /\ layout.kind = "undecorated" =>
               \A q \in Queries \ {"tiled"} :
                   Outcomes(q, layout') = Outcomes(q, layout)
        /\ IsCSD(layout) =>
               \A q \in {"IsShowingShadow", "GetInputInsets"} :
                   Outcomes(q, layout') = Outcomes(q, layout)

\* C10: tiled() is false after construction and then the argument of the
\* most recent set_tiled call; a set_tiled call changes nothing but the flag,
\* no query result of the undecorated layout, and neither IsShowingShadow nor
\* GetInputInsets of a CSD layout.
C10_TiledFlag == []C10_TiledIsLastArgument /\ [][C10_SetTiledStep]_vars

C10_Witness ==
    /\ layout.kind = "undecorated"
    /\ last.op = "set_tiled"
    /\ last.arg = TRUE
    /\ tiledArg = "true"
    /\ tiled(layout)
    /\ maximized

====
